---- MODULE Spec2Model ----
(***************************************************************************)
(* Storage inspection scripts of mattermost-docker:                        *)
(*   scripts/swift-inspector.py       SwiftInspector                       *)
(*   scripts/deep-swift-scan.py       deep_container_scan                  *)
(*   scripts/check-all-containers.py  check_all_containers                 *)
(*                                                                         *)
(* Objects of a container are records [name, bytes].  In the listing part  *)
(* a name is a key number (the backend orders keys ascending); in the      *)
(* classification part a name is the sequence of its characters.           *)
(***************************************************************************)
EXTENDS Integers, Sequences, FiniteSets, TLC

VARIABLES
    \* ---- SwiftInspector.list_all_objects ----
    container,      \* backend: the set of objects the container holds
    cap,            \* backend: most objects the server puts in one page
    show_details,   \* argument of list_all_objects
    pc,             \* position in list_all_objects
    marker,         \* local marker (<<>> is None, <<k>> a key)
    all_objects,    \* local all_objects
    rv,             \* listing accumulated inside get_container(full_listing=True)
    lmarker,        \* marker inside get_container(full_listing=True)
    total_size,     \* local total_size
    foundLine,      \* printed "Found N objects": <<>> or <<N>>
    totalLine,      \* printed "Total calculated size": <<>> or <<bytes>>
    errLine,        \* printed "ERROR: Failed to list objects": <<>> or <<"ClientException">>
    ret,            \* what list_all_objects gave its caller
    pageLasts,      \* history: last key of every non-empty page received
    failures,       \* history: number of page requests that failed
    repeats,        \* history: number of pages the backend repeated
    pageLens,       \* history: number of objects of every page received
    lastFailure,    \* history: condition of the page request that failed, or ""
    \* ---- SwiftInspector.analyze_backup_directories ----
    cl_container,   \* backend: the container's listing, ascending by name
    cl_pc,          \* position in analyze_backup_directories
    objects,        \* local objects (the full listing)
    cl_i,           \* objects handled by the grouping loop so far
    backup_dirs,    \* local backup_dirs, in insertion order: [dir, objs]
    backup_analysis,\* local backup_analysis, in insertion order
    cl_ret,         \* what analyze_backup_directories gave its caller
    \* ---- SwiftInspector.check_for_hidden_data ----
    rc_backend,     \* backend: [account, container] bytes used, [listing] objects
    rc_pc,          \* position in check_for_hidden_data
    account_bytes,  \* local account_bytes
    container_bytes,\* local container_bytes
    object_bytes,   \* local object_bytes
    container_vs_objects,   \* local container_vs_objects
    account_vs_container,   \* local account_vs_container
    rc_warned,      \* which of the two warnings were printed
    rc_causes,      \* candidate causes printed
    rc_error,       \* "ERROR during hidden data investigation" printed
    \* ---- deep_container_scan ----
    ds_backend,     \* backend: [reported] object count, [listing] of the container,
                    \*          [versions] listings of the version containers
    ds_pc,          \* position in deep_container_scan
    ds_objects,     \* local objects: <<>> while unbound, <<listing>> once assigned
    ds_std,         \* history: the standard listing, <<>> or <<listing>>
    ds_i,           \* prefixes handled by the probe loop so far
    ds_log,         \* lines printed by the probe loop, one entry per prefix
    ds_fails,       \* history: indices of the prefixes whose listing failed
    ds_vi,          \* version containers handled so far
    ds_summary,     \* printed summary: <<>> or <<[reported, visible, missing]>>
    ds_error,       \* "ERROR during investigation" printed
    \* ---- check_all_containers ----
    ca_backend,     \* backend: [reported] account bytes, [containers] listing
    ca_pc,          \* position in check_all_containers
    ca_i,           \* containers handled by the loop so far
    total_account_size,     \* local total_account_size
    ca_log,         \* what was printed for each container
    ca_fails,       \* history: indices of the containers whose details failed
    ca_verdict      \* printed verdict: <<>> or <<[calculated, match, diff]>>

listVars == <<container, cap, show_details, pc, marker, all_objects, rv, lmarker,
              total_size, foundLine, totalLine, errLine, ret, pageLasts,
              failures, repeats, pageLens, lastFailure>>

classVars == <<cl_container, cl_pc, objects, cl_i, backup_dirs, backup_analysis,
               cl_ret>>

reconVars == <<rc_backend, rc_pc, account_bytes, container_bytes, object_bytes,
               container_vs_objects, account_vs_container, rc_warned, rc_causes,
               rc_error>>

scanVars == <<ds_backend, ds_pc, ds_objects, ds_std, ds_i, ds_log, ds_fails, ds_vi,
              ds_summary, ds_error>>

checkVars == <<ca_backend, ca_pc, ca_i, total_account_size, ca_log, ca_fails,
               ca_verdict>>

vars == <<listVars, classVars, reconVars, scanVars, checkVars>>

notList == <<classVars, reconVars, scanVars, checkVars>>
notClass == <<listVars, reconVars, scanVars, checkVars>>
notRecon == <<listVars, classVars, scanVars, checkVars>>
notScan == <<listVars, classVars, reconVars, checkVars>>
notCheck == <<listVars, classVars, reconVars, scanVars>>

\* A method that is not being run.
ListIdle ==
    /\ container = {} /\ cap = 1 /\ show_details = FALSE /\ pc = "idle"
    /\ marker = <<>> /\ all_objects = <<>> /\ rv = <<>> /\ lmarker = <<>>
    /\ total_size = 0 /\ foundLine = <<>> /\ totalLine = <<>> /\ errLine = <<>>
    /\ ret = [kind |-> "running", val |-> <<>>, exc |-> ""]
    /\ pageLasts = <<>> /\ failures = 0 /\ repeats = 0
    /\ pageLens = <<>> /\ lastFailure = ""

ClassIdle ==
    /\ cl_container = <<>> /\ cl_pc = "idle" /\ objects = <<>> /\ cl_i = 0
    /\ backup_dirs = <<>> /\ backup_analysis = <<>>
    /\ cl_ret = [kind |-> "running", val |-> <<>>]

ReconIdle ==
    /\ rc_backend = [account |-> 0, container |-> 0, listing |-> <<>>]
    /\ rc_pc = "idle" /\ account_bytes = 0 /\ container_bytes = 0
    /\ object_bytes = 0 /\ container_vs_objects = 0 /\ account_vs_container = 0
    /\ rc_warned = {} /\ rc_causes = {} /\ rc_error = FALSE

ScanIdle ==
    /\ ds_backend = [reported |-> 0, listing |-> <<>>, versions |-> <<>>]
    /\ ds_pc = "idle" /\ ds_objects = <<>> /\ ds_std = <<>> /\ ds_i = 0
    /\ ds_log = <<>> /\ ds_fails = {} /\ ds_vi = 0 /\ ds_summary = <<>>
    /\ ds_error = FALSE

CheckIdle ==
    /\ ca_backend = [reported |-> 0, containers |-> <<>>]
    /\ ca_pc = "idle" /\ ca_i = 0 /\ total_account_size = 0 /\ ca_log = <<>>
    /\ ca_fails = {} /\ ca_verdict = <<>>

OthersIdle(running) ==
    /\ IF running = "list" THEN TRUE ELSE ListIdle
    /\ IF running = "class" THEN TRUE ELSE ClassIdle
    /\ IF running = "recon" THEN TRUE ELSE ReconIdle
    /\ IF running = "scan" THEN TRUE ELSE ScanIdle
    /\ IF running = "check" THEN TRUE ELSE CheckIdle

\* ------------------------------------------------------------------ bounds
MaxKeys == 3        \* keys of a container are drawn from 1..MaxKeys
MaxCap == 3         \* the server's page cap is drawn from 1..MaxCap
MaxRepeats == 2     \* pages a faulty backend may repeat in one run

\* --------------------------------------------------------- program constants
ListLimit == 1000   \* limit=1000 of list_all_objects

\* ------------------------------------------------------------------ helpers
Min(a, b) == IF a <= b THEN a ELSE b

Last(s) == s[Len(s)]

Take(s, n) == SubSeq(s, 1, Min(n, Len(s)))

\* sum(obj['bytes'] for obj in objects)
RECURSIVE SumBytes(_)
SumBytes(objs) ==
    IF objs = <<>> THEN 0 ELSE Head(objs).bytes + SumBytes(Tail(objs))

\* total_size = 0; for obj in all_objects: total_size += obj['bytes']
RECURSIVE AccumulateBytes(_, _)
AccumulateBytes(acc, objs) ==
    IF objs = <<>> THEN acc ELSE AccumulateBytes(acc + Head(objs).bytes, Tail(objs))

\* The objects of S in ascending key order.
RECURSIVE Ascending(_)
Ascending(S) ==
    IF S = {} THEN <<>>
    ELSE LET m == CHOOSE x \in S : \A y \in S : x.name <= y.name
         IN <<m>> \o Ascending(S \ {m})

\* One listing request answered by a conforming backend: up to `limit` objects
\* (and never more than the server's cap) with key > marker, ascending.
BackendPage(m, limit) ==
    LET above == IF m = <<>> THEN container
                 ELSE {o \in container : o.name > m[1]}
    IN Take(Ascending(above), Min(limit, cap))

\* The object sizes an input object may have.
ByteChoices == {100, 250}

Containers ==
    {S \in SUBSET [name : 1..MaxKeys, bytes : ByteChoices] :
        \A a, b \in S : a.name = b.name => a = b}

\* ------------------------------------------- SwiftInspector.list_all_objects
\* What list_all_objects gave its caller: nothing yet, a list, or an exception.
Running == [kind |-> "running", val |-> <<>>, exc |-> ""]

Returned(objs) == [kind |-> "list", val |-> objs, exc |-> ""]

Raised(e) == [kind |-> "raised", val |-> <<>>, exc |-> e]

\* Line 196: marker = objects[-1]['name']
NextMarkerMutant(objs) == <<Head(objs).name>>

NextMarker(objs) == <<Last(objs).name>>

\* The last object received so far, as a one-object page (or no page).
LastOf(objs) == IF objs = <<>> THEN <<>> ELSE <<Last(objs)>>

ListInit ==
    /\ container \in Containers
    /\ cap \in 1..MaxCap
    /\ show_details \in BOOLEAN
    /\ pc = "loop"
    /\ marker = <<>>
    /\ all_objects = <<>>
    /\ rv = <<>>
    /\ lmarker = <<>>
    /\ total_size = 0
    /\ foundLine = <<>>
    /\ totalLine = <<>>
    /\ errLine = <<>>
    /\ ret = Running
    /\ pageLasts = <<>>
    /\ failures = 0
    /\ repeats = 0
    /\ pageLens = <<>>
    /\ lastFailure = ""

\* What one page request may give: the page a conforming backend sends, or
\* (faulty backend, marker taken as inclusive) the last object once more.
PageAnswers(m, prev) ==
    {[page |-> BackendPage(m, ListLimit), repeated |-> FALSE]}
    \cup (IF prev # <<>> /\ repeats < MaxRepeats
          THEN {[page |-> prev, repeated |-> TRUE]} ELSE {})

NotePage(ans) ==
    /\ pageLasts' = IF ans.page = <<>> THEN pageLasts
                    ELSE Append(pageLasts, Last(ans.page).name)
    /\ repeats' = IF ans.repeated THEN repeats + 1 ELSE repeats
    /\ pageLens' = Append(pageLens, Len(ans.page))

\* Lines 192-193: if not objects: break
BreakLoopMutant(objs) == Len(objs) < ListLimit

BreakLoop(objs) == objs = <<>>

\* Line 185: get_container(marker=marker, limit=1000, full_listing=True) sends
\* its first page request.  An empty first page is returned as it is, and
\* `if not objects: break` leaves the loop.
GetContainer ==
    /\ pc = "loop"
    /\ \E ans \in PageAnswers(marker, LastOf(all_objects)) :
          /\ NotePage(ans)
          /\ IF ans.page = <<>>
             THEN /\ BreakLoop(ans.page)
                  /\ pc' = "summary"
                  /\ UNCHANGED <<rv, lmarker>>
             ELSE /\ pc' = "full_listing"
                  /\ rv' = ans.page
                  /\ lmarker' = <<Last(ans.page).name>>
    /\ UNCHANGED <<container, cap, show_details, marker, all_objects, total_size,
                   foundLine, totalLine, errLine, ret, failures, lastFailure>>
    /\ UNCHANGED notList

\* full_listing=True: get_container asks for the page after the last key it
\* has until a page comes back empty, then returns everything it gathered;
\* lines 195-196 extend all_objects and move the marker.
FullListingPage ==
    /\ pc = "full_listing"
    /\ \E ans \in PageAnswers(lmarker, LastOf(rv)) :
          /\ NotePage(ans)
          /\ IF ans.page = <<>>
             THEN IF BreakLoop(rv)
                  THEN /\ pc' = "summary"
                       /\ rv' = <<>>
                       /\ lmarker' = <<>>
                       /\ UNCHANGED <<all_objects, marker>>
                  ELSE /\ all_objects' = all_objects \o rv
                       /\ marker' = NextMarker(rv)
                       /\ rv' = <<>>
                       /\ lmarker' = <<>>
                       /\ pc' = "loop"
             ELSE /\ rv' = rv \o ans.page
                  /\ lmarker' = <<Last(ans.page).name>>
                  /\ pc' = "full_listing"
                  /\ UNCHANGED <<all_objects, marker>>
    /\ UNCHANGED <<container, cap, show_details, total_size, foundLine, totalLine,
                   errLine, ret, failures, lastFailure>>
    /\ UNCHANGED notList

\* Lines 198-219: the count and the total are printed, all_objects returned.
ComputeTotalMutant(details, objs) == IF details THEN 0 ELSE SumBytes(objs)

ComputeTotal(details, objs) ==
    IF details THEN AccumulateBytes(total_size, objs) ELSE SumBytes(objs)

Summary ==
    /\ pc = "summary"
    /\ foundLine' = <<Len(all_objects)>>
    /\ total_size' = ComputeTotal(show_details, all_objects)
    /\ totalLine' = <<total_size'>>
    /\ ret' = Returned(all_objects)
    /\ pc' = "done"
    /\ UNCHANGED <<container, cap, show_details, marker, all_objects, rv, lmarker,
                   errLine, pageLasts, failures, repeats, pageLens, lastFailure>>
    /\ UNCHANGED notList

\* What the caller gets when a page request raises ClientException
\* (lines 221-223): the error line is printed and [] returned.
OnClientExceptionMutant == Returned(all_objects \o rv)

OnClientException == Returned(<<>>)

\* A page request raises ClientException: a transient condition (the server
\* is unavailable, the token expired) or a lasting one (container not found).
PageFailsClientException ==
    /\ pc \in {"loop", "full_listing"}
    /\ lastFailure' \in {"transient", "not_found"}
    /\ errLine' = <<"ClientException">>
    /\ ret' = OnClientException
    /\ failures' = failures + 1
    /\ pc' = "done"
    /\ UNCHANGED <<container, cap, show_details, marker, all_objects, rv, lmarker,
                   total_size, foundLine, totalLine, pageLasts, repeats, pageLens>>
    /\ UNCHANGED notList

\* A page request raises another exception (a socket error): no handler of
\* list_all_objects catches it, it leaves the method (main, lines 389-391).
PageFailsOther ==
    /\ pc \in {"loop", "full_listing"}
    /\ lastFailure' = "transient"
    /\ ret' = Raised("Exception")
    /\ failures' = failures + 1
    /\ pc' = "done"
    /\ UNCHANGED <<container, cap, show_details, marker, all_objects, rv, lmarker,
                   total_size, foundLine, totalLine, errLine, pageLasts, repeats,
                   pageLens>>
    /\ UNCHANGED notList

ListNext ==
    \/ GetContainer
    \/ FullListingPage
    \/ Summary
    \/ PageFailsClientException
    \/ PageFailsOther

InitList == ListInit /\ OthersIdle("list")

SpecList == InitList /\ [][ListNext]_vars

\* The backend kept its contract and no request failed.
ConformingRun == failures = 0 /\ repeats = 0

\* C1: with a backend that answers every request with up to `limit` objects
\* of key > marker in ascending order, list_all_objects returns every object
\* of the container exactly once, in ascending key order, whatever the page
\* size.
C1_Completeness ==
    (pc = "done" /\ ConformingRun) =>
        /\ ret.kind = "list"
        /\ ret.val = Ascending(container)
        /\ foundLine = <<Cardinality(container)>>

\* C1 witness: a container of three objects was listed in pages of two.
C1_Witness ==
    /\ pc = "done" /\ ConformingRun
    /\ Cardinality(container) = 3 /\ cap = 2
    /\ Len(pageLasts) = 2
    /\ Len(ret.val) = 3

\* A page ended on the same last key as the page before it.
NonAdvancing ==
    \E i \in 1..(Len(pageLasts) - 1) : pageLasts[i] = pageLasts[i + 1]

\* C2: once a page ends on the same last key as the previous page, the
\* enumeration has stopped with a PaginationFault and has returned no listing.
C2_NonAdvancingIsFatal ==
    NonAdvancing => (pc = "done" /\ ret = Raised("PaginationFault"))

\* C11: a page request that failed with a transient condition has been made
\* three times before the enumeration fails; one that failed with
\* container-not-found has been made once.
C11_BoundedRetry ==
    pc = "done" =>
        /\ lastFailure = "transient" => failures = 3
        /\ lastFailure = "not_found" => failures = 1

\* The last page of the run is empty, and it is the only empty page but for
\* the one that ended the get_container call before it.
StoppedOnEmpty ==
    /\ pageLens # <<>>
    /\ Last(pageLens) = 0
    /\ Cardinality({i \in 1..Len(pageLens) : pageLens[i] = 0})
          = IF container = {} THEN 1 ELSE 2

\* C12 (as stated): a page with fewer records than requested, or none, is
\* the last page requested.
C12_StopsOnShortPage ==
    \A i \in 1..(Len(pageLens) - 1) : pageLens[i] >= ListLimit

\* C12 (amended): with a conforming backend the enumeration ends at the first
\* get_container call that returns no records and requests nothing after it;
\* a non-empty page shorter than requested does not end it; the run makes at
\* most N + 2 page requests for a container of N objects.
C12_StopsOnEmptyListing ==
    ConformingRun =>
        /\ Len(pageLens) <= Cardinality(container) + 2
        /\ pc \in {"summary", "done"} => StoppedOnEmpty
        /\ pc \in {"loop", "full_listing"} =>
              \A i \in 1..Len(pageLens) :
                  pageLens[i] = 0 => (i = Len(pageLens) /\ pc = "loop")

\* C12 witness: three objects came in pages of two and one, then the two
\* empty pages, and the enumeration ended.
C12_Witness ==
    /\ pc = "done" /\ ConformingRun
    /\ pageLens = <<2, 1, 0, 0>>

\* C15: with and without show_details the returned sequence is all_objects
\* and the total printed is the integer sum of the byte sizes of the returned
\* objects, so both modes give the same result for the same backend answers.
C15_DetailsEquivalence ==
    (pc = "done" /\ foundLine # <<>>) =>
        /\ ret = Returned(all_objects)
        /\ foundLine = <<Len(ret.val)>>
        /\ totalLine = <<SumBytes(ret.val)>>
        /\ total_size = SumBytes(ret.val)

\* C15 witness: a detailed run returned two objects of different sizes.
C15_Witness ==
    /\ pc = "done" /\ show_details
    /\ Len(ret.val) = 2
    /\ totalLine = <<350>>

\* C8: after a failed page request the failure is reported (the error line
\* with an empty result, or the exception itself) and neither an object count
\* nor a byte total of the pages already received is reported.
C8_NoPartialScan ==
    failures > 0 =>
        /\ pc = "done"
        /\ foundLine = <<>>
        /\ totalLine = <<>>
        /\ \/ ret.kind = "raised"
           \/ (ret = Returned(<<>>) /\ errLine # <<>>)

\* C8 witness: the request failed with ClientException after objects had
\* been received.
C8_Witness ==
    /\ failures > 0
    /\ errLine # <<>>
    /\ Len(all_objects) + Len(rv) >= 2

\* ------------------------------- SwiftInspector.analyze_backup_directories
MaxObjects == 2     \* objects of a classified container

DateDigits == 8     \* \d{8}
TimeDigits == 6     \* \d{6}

\* The characters of the object names used, in code-point order.
Alphabet ==
    <<"\n", "-", ".", "/", "0", "1", "2", "3", "4", "5", "6", "7", "8", "9", "_",
      "a", "b", "c", "d", "e", "k", "l", "m", "o", "p", "q", "r", "s", "t", "u",
      "x">>

CharRank(c) == CHOOSE i \in 1..Len(Alphabet) : Alphabet[i] = c

\* \d (of the characters used, the ASCII digits)
IsDigit(c) == c \in {"0", "1", "2", "3", "4", "5", "6", "7", "8", "9"}

\* Order of names in a container listing.
RECURSIVE NameLess(_, _)
NameLess(a, b) ==
    IF a = <<>> THEN b # <<>>
    ELSE IF b = <<>> THEN FALSE
    ELSE IF Head(a) = Head(b) THEN NameLess(Tail(a), Tail(b))
    ELSE CharRank(Head(a)) < CharRank(Head(b))

RECURSIVE ListingOf(_)
ListingOf(S) ==
    IF S = {} THEN <<>>
    ELSE LET m == CHOOSE x \in S : \A y \in S \ {x} : NameLess(x.name, y.name)
         IN <<m>> \o ListingOf(S \ {m})

\* name.split('/')
RECURSIVE Split(_)
Split(s) ==
    IF \A i \in 1..Len(s) : s[i] # "/" THEN <<s>>
    ELSE LET i == CHOOSE j \in 1..Len(s) :
                    s[j] = "/" /\ \A k \in 1..(j - 1) : s[k] # "/"
         IN <<SubSeq(s, 1, i - 1)>> \o Split(SubSeq(s, i + 1, Len(s)))

\* re.match(r'^\d{8}_\d{6}$', s): Python's $ matches at the end of the string
\* and also just before a newline that ends the string.
ReMatchStamp(s) ==
    LET n == DateDigits + 1 + TimeDigits
    IN /\ Len(s) \in {n, n + 1}
       /\ \A i \in 1..DateDigits : IsDigit(s[i])
       /\ s[DateDigits + 1] = "_"
       /\ \A i \in (DateDigits + 2)..n : IsDigit(s[i])
       /\ Len(s) = n + 1 => s[n + 1] = "\n"

\* Lines 247-249: append obj to backup_dirs[dir], a new entry going last.
AddToDir(dirs, dir, obj) ==
    IF \E i \in 1..Len(dirs) : dirs[i].dir = dir
    THEN [i \in 1..Len(dirs) |->
            IF dirs[i].dir = dir
            THEN [dirs[i] EXCEPT !.objs = Append(@, obj)] ELSE dirs[i]]
    ELSE Append(dirs, [dir |-> dir, objs |-> <<obj>>])

\* Lines 244-249: one turn of the grouping loop.
GroupOne(dirs, obj) ==
    LET parts == Split(obj.name)
    IN IF Len(parts) >= 2 /\ ReMatchStamp(parts[1])
       THEN AddToDir(dirs, parts[1], obj) ELSE dirs

\* Lines 253-270: one backup_analysis entry per backup directory.
AnalysisOf(dirs) ==
    [i \in 1..Len(dirs) |->
        [dir |-> dirs[i].dir,
         objects |-> Len(dirs[i].objs),
         total_size |-> SumBytes(dirs[i].objs),
         files |-> dirs[i].objs]]

\* Residual list of unclassified objects: analyze_backup_directories builds,
\* prints and returns none.
ResidualList == <<>>

\* Input names: a date part of 7..9 digits, a separator, a time part of 5..7
\* digits, possibly a newline, then nothing or a path below it; and readme.txt.
DateSource == <<"2", "0", "2", "5", "0", "7", "2", "6", "1">>
TimeSource == <<"1", "4", "0", "0", "0", "0", "7">>

DbSql == <<"/", "d", "b", ".", "s", "q", "l">>
ReadmeTxt == <<"r", "e", "a", "d", "m", "e", ".", "t", "x", "t">>

StampLike(d, sep, t, tail) ==
    SubSeq(DateSource, 1, d) \o sep \o SubSeq(TimeSource, 1, t) \o tail

ClassifiedObjects ==
    {[name |-> StampLike(d, sep, t, tail) \o r.rest, bytes |-> r.bytes] :
        d \in {DateDigits - 1, DateDigits, DateDigits + 1},
        sep \in {<<"_">>, <<"-">>, <<>>},
        t \in {TimeDigits - 1, TimeDigits, TimeDigits + 1},
        tail \in {<<>>, <<"\n">>},
        r \in {[rest |-> <<>>, bytes |-> 200],
               [rest |-> DbSql, bytes |-> 50000],
               [rest |-> <<"/", "a", "/", "b">>, bytes |-> 300]}}
    \cup {[name |-> ReadmeTxt, bytes |-> 200]}

\* The containers of at most n of these objects.
RECURSIVE ContainersUpTo(_)
ContainersUpTo(n) ==
    IF n = 0 THEN {{}}
    ELSE LET P == ContainersUpTo(n - 1)
         IN P \cup {T \cup {o} : T \in P, o \in ClassifiedObjects}

ClassInit ==
    /\ \E S \in ContainersUpTo(MaxObjects) : cl_container = ListingOf(S)
    /\ cl_pc = "start"
    /\ objects = <<>>
    /\ cl_i = 0
    /\ backup_dirs = <<>>
    /\ backup_analysis = <<>>
    /\ cl_ret = [kind |-> "running", val |-> <<>>]

\* Lines 235-241: the full listing is fetched.
ClGetContainer ==
    /\ cl_pc = "start"
    /\ objects' = cl_container
    /\ backup_dirs' = <<>>
    /\ cl_i' = 0
    /\ cl_pc' = "group"
    /\ UNCHANGED <<cl_container, backup_analysis, cl_ret>>
    /\ UNCHANGED notClass

\* Lines 274-276: the listing raises ClientException, {} is returned.
ClListingFails ==
    /\ cl_pc = "start"
    /\ cl_ret' = [kind |-> "dict", val |-> <<>>]
    /\ cl_pc' = "done"
    /\ UNCHANGED <<cl_container, objects, cl_i, backup_dirs, backup_analysis>>
    /\ UNCHANGED notClass

\* Lines 242-249: the grouping loop handles the next object.
GroupObject ==
    /\ cl_pc = "group"
    /\ cl_i < Len(objects)
    /\ backup_dirs' = GroupOne(backup_dirs, objects[cl_i + 1])
    /\ cl_i' = cl_i + 1
    /\ UNCHANGED <<cl_container, cl_pc, objects, backup_analysis, cl_ret>>
    /\ UNCHANGED notClass

\* Lines 251-272: the directories are reported and backup_analysis returned.
ReportDirs ==
    /\ cl_pc = "group"
    /\ cl_i = Len(objects)
    /\ backup_analysis' = AnalysisOf(backup_dirs)
    /\ cl_ret' = [kind |-> "dict", val |-> backup_analysis']
    /\ cl_pc' = "done"
    /\ UNCHANGED <<cl_container, objects, cl_i, backup_dirs>>
    /\ UNCHANGED notClass

ClassNext ==
    \/ ClGetContainer
    \/ ClListingFails
    \/ GroupObject
    \/ ReportDirs

InitClass == ClassInit /\ OthersIdle("class")

SpecClass == InitClass /\ [][ClassNext]_vars

\* The classification has run to its end on the listing.
Classified == cl_pc = "done" /\ objects = cl_container

InSet(o, K) ==
    \E i \in 1..Len(cl_ret.val) :
        /\ cl_ret.val[i].dir = K
        /\ \E j \in 1..Len(cl_ret.val[i].files) : cl_ret.val[i].files[j] = o

InSomeSet(o) == \E i \in 1..Len(cl_ret.val) : InSet(o, cl_ret.val[i].dir)

InResidual(o) == \E j \in 1..Len(ResidualList) : ResidualList[j] = o

\* C3: after classification every object of the listing is in exactly one of
\* {some backup set, the residual list}: never in both, never in neither.
C3_Partition ==
    Classified =>
        \A k \in 1..Len(objects) :
            InSomeSet(objects[k]) # InResidual(objects[k])

\* The part of a name before its first '/'.
FirstSegment(name) == Head(Split(name))

HasSeparator(name) == \E i \in 1..Len(name) : name[i] = "/"

\* Exactly 8 digits, one underscore, exactly 6 digits.
IsTimestampKey(K) ==
    /\ Len(K) = DateDigits + 1 + TimeDigits
    /\ \A i \in 1..DateDigits : IsDigit(K[i])
    /\ K[DateDigits + 1] = "_"
    /\ \A i \in (DateDigits + 2)..Len(K) : IsDigit(K[i])

\* C4: an object is a member of backup set K iff the part of its path before
\* the first '/' is K and K is exactly 8 digits, an underscore and 6 digits;
\* every backup set's total is the byte sum of its members.
C4_KeyMatching ==
    Classified =>
        /\ \A k \in 1..Len(objects) :
              LET o == objects[k]
                  K == FirstSegment(o.name)
              IN /\ InSet(o, K) <=> (HasSeparator(o.name) /\ IsTimestampKey(K))
                 /\ \A i \in 1..Len(cl_ret.val) :
                       InSet(o, cl_ret.val[i].dir) => cl_ret.val[i].dir = K
        /\ \A i \in 1..Len(cl_ret.val) :
              /\ IsTimestampKey(cl_ret.val[i].dir)
              /\ cl_ret.val[i].objects = Len(cl_ret.val[i].files)
              /\ cl_ret.val[i].total_size = SumBytes(cl_ret.val[i].files)

\* ---------------------------------------- SwiftInspector.check_for_hidden_data
\* Byte totals the account and the container may report.
ReportedBytes ==
    {0, 499500, 500000, 500500, 501000, 501001, 8000000, 10000000}

\* Listings of the container.
HiddenDataListings ==
    {<<>>,
     <<[name |-> 1, bytes |-> 100000], [name |-> 2, bytes |-> 150000],
       [name |-> 3, bytes |-> 249500]>>,
     <<[name |-> 1, bytes |-> 500000]>>,
     <<[name |-> 1, bytes |-> 3000000], [name |-> 2, bytes |-> 5000000]>>}

ReconInit ==
    /\ rc_backend \in [account : ReportedBytes, container : ReportedBytes,
                       listing : HiddenDataListings]
    /\ rc_pc = "head_account"
    /\ account_bytes = 0
    /\ container_bytes = 0
    /\ object_bytes = 0
    /\ container_vs_objects = 0
    /\ account_vs_container = 0
    /\ rc_warned = {}
    /\ rc_causes = {}
    /\ rc_error = FALSE

\* Lines 286-287: account_bytes = int(head_account()['x-account-bytes-used'])
RcHeadAccount ==
    /\ rc_pc = "head_account"
    /\ account_bytes' = rc_backend.account
    /\ rc_pc' = "head_container"
    /\ UNCHANGED <<rc_backend, container_bytes, object_bytes, container_vs_objects,
                   account_vs_container, rc_warned, rc_causes, rc_error>>
    /\ UNCHANGED notRecon

\* Lines 290-291: container_bytes = int(head_container()['x-container-bytes-used'])
RcHeadContainer ==
    /\ rc_pc = "head_container"
    /\ container_bytes' = rc_backend.container
    /\ rc_pc' = "get_container"
    /\ UNCHANGED <<rc_backend, account_bytes, object_bytes, container_vs_objects,
                   account_vs_container, rc_warned, rc_causes, rc_error>>
    /\ UNCHANGED notRecon

\* Lines 309-315: the warning on the container comparison and its causes.
ContainerCauses(diff) ==
    IF diff > 0
    THEN {"versioning_or_snapshots", "soft_deleted_objects", "metadata_overhead",
          "allocation_overhead"}
    ELSE {}

\* Lines 317-319: the warning on the account comparison and its causes.
AccountCauses(diff) ==
    IF diff > 0 THEN {"other_containers", "account_metadata"} ELSE {}

\* Lines 294-319: the listing is summed, both differences are computed and
\* printed with their warnings.
RcAnalyse ==
    /\ rc_pc = "get_container"
    /\ object_bytes' = SumBytes(rc_backend.listing)
    /\ container_vs_objects' = container_bytes - object_bytes'
    /\ account_vs_container' = account_bytes - container_bytes
    /\ rc_warned' = (IF ContainerCauses(container_vs_objects') # {}
                     THEN {"container_vs_objects"} ELSE {})
                    \cup (IF AccountCauses(account_vs_container') # {}
                          THEN {"account_vs_container"} ELSE {})
    /\ rc_causes' = ContainerCauses(container_vs_objects')
                    \cup AccountCauses(account_vs_container')
    /\ rc_pc' = "get_account"
    /\ UNCHANGED <<rc_backend, account_bytes, container_bytes, rc_error>>
    /\ UNCHANGED notRecon

\* Lines 322-329: the account's containers are listed and printed.
RcOtherContainers ==
    /\ rc_pc = "get_account"
    /\ rc_pc' = "done"
    /\ UNCHANGED <<rc_backend, account_bytes, container_bytes, object_bytes,
                   container_vs_objects, account_vs_container, rc_warned,
                   rc_causes, rc_error>>
    /\ UNCHANGED notRecon

\* Lines 331-332: a backend call raises; the error is printed and the method ends.
RcCallFails ==
    /\ rc_pc \in {"head_account", "head_container", "get_container", "get_account"}
    /\ rc_error' = TRUE
    /\ rc_pc' = "failed"
    /\ UNCHANGED <<rc_backend, account_bytes, container_bytes, object_bytes,
                   container_vs_objects, account_vs_container, rc_warned, rc_causes>>
    /\ UNCHANGED notRecon

ReconNext ==
    \/ RcHeadAccount
    \/ RcHeadContainer
    \/ RcAnalyse
    \/ RcOtherContainers
    \/ RcCallFails

InitRecon == ReconInit /\ OthersIdle("recon")

SpecRecon == InitRecon /\ [][ReconNext]_vars

\* The tolerance of byte comparisons: check_all_containers allows differences
\* of up to 1000 bytes; check_for_hidden_data itself has no tolerance.
SizeTolerance == 1000

Abs(x) == IF x < 0 THEN -x ELSE x

\* Both differences have been computed and judged.
Reconciled == rc_pc \in {"get_account", "done"}

\* C5: each comparison is judged within tolerance (no warning) iff the
\* absolute value of its difference is <= the tolerance of 1000 bytes.
C5_ToleranceSymmetry ==
    Reconciled =>
        /\ container_vs_objects = rc_backend.container - SumBytes(rc_backend.listing)
        /\ account_vs_container = rc_backend.account - rc_backend.container
        /\ ("container_vs_objects" \notin rc_warned)
              <=> (Abs(container_vs_objects) <= SizeTolerance)
        /\ ("account_vs_container" \notin rc_warned)
              <=> (Abs(account_vs_container) <= SizeTolerance)

\* C6: the causes of the container comparison are attached only beyond the
\* tolerance: four causes when the difference is positive, listing undercount
\* and eventual-consistency lag when it is negative, none within tolerance.
C6_ContainerCauses ==
    Reconciled =>
        rc_causes \ {"other_containers", "account_metadata"} =
            IF container_vs_objects > SizeTolerance
            THEN {"versioning_or_snapshots", "soft_deleted_objects",
                  "metadata_overhead", "allocation_overhead"}
            ELSE IF container_vs_objects < -SizeTolerance
            THEN {"listing_undercount", "eventual_consistency_lag"}
            ELSE {}

\* C7: the causes 'other containers' and 'account metadata' are attached iff
\* the account comparison is not within tolerance.
C7_AccountCauses ==
    Reconciled =>
        rc_causes \cap {"other_containers", "account_metadata"} =
            IF Abs(account_vs_container) > SizeTolerance
            THEN {"other_containers", "account_metadata"}
            ELSE {}

\* ------------------------------------------------------- deep_container_scan
\* Line 103: prefixes_to_try = ['', '20', '.', '_', 'backup', 'old', 'tmp']
prefixes_to_try ==
    <<<<>>, <<"2", "0">>, <<".">>, <<"_">>, <<"b", "a", "c", "k", "u", "p">>,
      <<"o", "l", "d">>, <<"t", "m", "p">>>>

StartsWith(name, prefix) ==
    /\ Len(prefix) <= Len(name)
    /\ SubSeq(name, 1, Len(prefix)) = prefix

\* get_container(container, prefix=prefix, full_listing=True)
RECURSIVE WithPrefix(_, _)
WithPrefix(listing, prefix) ==
    IF listing = <<>> THEN <<>>
    ELSE (IF StartsWith(Head(listing).name, prefix) THEN <<Head(listing)>> ELSE <<>>)
         \o WithPrefix(Tail(listing), prefix)

\* Objects a scanned container may hold.
ScannedObjects ==
    {[name |-> StampLike(DateDigits, <<"_">>, TimeDigits, <<>>) \o DbSql,
      bytes |-> 50000],
     [name |-> <<".", "a">>, bytes |-> 200],
     [name |-> <<"t", "m", "p", "/", "x">>, bytes |-> 300]}

\* Listings of the account's version containers (none, one empty, one of two).
VersionListings ==
    {<<>>, << <<>> >>,
     << <<[name |-> <<"a">>, bytes |-> 100], [name |-> <<"b">>, bytes |-> 100]>> >>}

ScanInit ==
    /\ \E S \in SUBSET ScannedObjects, r \in {0, 3}, v \in VersionListings :
          ds_backend = [reported |-> r, listing |-> ListingOf(S), versions |-> v]
    /\ ds_pc = "head_container"
    /\ ds_objects = <<>>
    /\ ds_std = <<>>
    /\ ds_i = 0
    /\ ds_log = <<>>
    /\ ds_fails = {}
    /\ ds_vi = 0
    /\ ds_summary = <<>>
    /\ ds_error = FALSE

\* Lines 69-74: head_container answers.
ScanHeadContainer ==
    /\ ds_pc = "head_container"
    /\ ds_pc' = "standard"
    /\ UNCHANGED <<ds_backend, ds_objects, ds_std, ds_i, ds_log, ds_fails, ds_vi,
                   ds_summary, ds_error>>
    /\ UNCHANGED notScan

\* Lines 204-205: head_container raises; the outer handler ends the scan.
ScanHeadContainerFails ==
    /\ ds_pc = "head_container"
    /\ ds_error' = TRUE
    /\ ds_pc' = "aborted"
    /\ UNCHANGED <<ds_backend, ds_objects, ds_std, ds_i, ds_log, ds_fails, ds_vi,
                   ds_summary>>
    /\ UNCHANGED notScan

\* Lines 81-87: the standard listing, or its error line.
ScanStandardListing ==
    /\ ds_pc = "standard"
    /\ \/ /\ ds_objects' = <<ds_backend.listing>>
          /\ ds_std' = <<ds_backend.listing>>
       \/ UNCHANGED <<ds_objects, ds_std>>
    /\ ds_pc' = "format_json"
    /\ UNCHANGED <<ds_backend, ds_i, ds_log, ds_fails, ds_vi, ds_summary, ds_error>>
    /\ UNCHANGED notScan

\* Lines 91-99: the listing with query_string='format=json', or its error line.
ScanJsonListing ==
    /\ ds_pc = "format_json"
    /\ \/ ds_objects' = <<ds_backend.listing>>
       \/ UNCHANGED ds_objects
    /\ ds_pc' = "prefixes"
    /\ UNCHANGED <<ds_backend, ds_std, ds_i, ds_log, ds_fails, ds_vi, ds_summary,
                   ds_error>>
    /\ UNCHANGED notScan

\* Where the scan goes after the listing of a prefix failed
\* (lines 118-119: the error line is printed, the loop goes on).
AfterProbeFailureMutant == "versions"

AfterProbeFailure == "prefixes"

\* Lines 105-117: the next prefix is listed and its objects are printed.
ProbePrefix ==
    /\ ds_pc = "prefixes"
    /\ ds_i < Len(prefixes_to_try)
    /\ LET prefix == prefixes_to_try[ds_i + 1]
           found == WithPrefix(ds_backend.listing, prefix)
       IN /\ ds_objects' = <<found>>
          /\ ds_log' = Append(ds_log,
                          [prefix |-> prefix,
                           line |-> IF found # <<>> THEN "found" ELSE "silent",
                           count |-> Len(found)])
    /\ ds_i' = ds_i + 1
    /\ UNCHANGED <<ds_backend, ds_pc, ds_std, ds_fails, ds_vi, ds_summary, ds_error>>
    /\ UNCHANGED notScan

\* Lines 118-119: the listing of the next prefix raises.
ProbePrefixFails ==
    /\ ds_pc = "prefixes"
    /\ ds_i < Len(prefixes_to_try)
    /\ ds_log' = Append(ds_log,
                    [prefix |-> prefixes_to_try[ds_i + 1], line |-> "error",
                     count |-> 0])
    /\ ds_fails' = ds_fails \cup {ds_i + 1}
    /\ ds_i' = ds_i + 1
    /\ ds_pc' = AfterProbeFailure
    /\ UNCHANGED <<ds_backend, ds_objects, ds_std, ds_vi, ds_summary, ds_error>>
    /\ UNCHANGED notScan

\* Line 105: the prefixes are exhausted.
ProbesDone ==
    /\ ds_pc = "prefixes"
    /\ ds_i = Len(prefixes_to_try)
    /\ ds_pc' = "versions"
    /\ UNCHANGED <<ds_backend, ds_objects, ds_std, ds_i, ds_log, ds_fails, ds_vi,
                   ds_summary, ds_error>>
    /\ UNCHANGED notScan

\* Lines 130-135: the next version container is listed, or its error printed.
ScanVersionContainer ==
    /\ ds_pc = "versions"
    /\ ds_vi < Len(ds_backend.versions)
    /\ \/ ds_objects' = <<ds_backend.versions[ds_vi + 1]>>
       \/ UNCHANGED ds_objects
    /\ ds_vi' = ds_vi + 1
    /\ UNCHANGED <<ds_backend, ds_pc, ds_std, ds_i, ds_log, ds_fails, ds_summary,
                   ds_error>>
    /\ UNCHANGED notScan

\* Lines 125-181: get_account failed or the version containers are done; the
\* swift CLI is run; neither assigns a local the summary reads.
ScanVersionsDone ==
    /\ ds_pc = "versions"
    /\ \/ ds_vi = Len(ds_backend.versions)
       \/ ds_vi = 0
    /\ ds_pc' = "summary"
    /\ UNCHANGED <<ds_backend, ds_objects, ds_std, ds_i, ds_log, ds_fails, ds_vi,
                   ds_summary, ds_error>>
    /\ UNCHANGED notScan

\* Line 188: visible_objects = len(objects) if 'objects' in locals() else 0
VisibleObjects(objs) == IF objs = <<>> THEN 0 ELSE Len(objs[1])

\* Lines 188-193: the summary.
ScanSummary ==
    /\ ds_pc = "summary"
    /\ ds_summary' = <<[reported |-> ds_backend.reported,
                        visible |-> VisibleObjects(ds_objects),
                        missing |-> ds_backend.reported - VisibleObjects(ds_objects)]>>
    /\ ds_pc' = "done"
    /\ UNCHANGED <<ds_backend, ds_objects, ds_std, ds_i, ds_log, ds_fails, ds_vi,
                   ds_error>>
    /\ UNCHANGED notScan

ScanNext ==
    \/ ScanHeadContainer
    \/ ScanHeadContainerFails
    \/ ScanStandardListing
    \/ ScanJsonListing
    \/ ProbePrefix
    \/ ProbePrefixFails
    \/ ProbesDone
    \/ ScanVersionContainer
    \/ ScanVersionsDone
    \/ ScanSummary

InitScan == ScanInit /\ OthersIdle("scan")

SpecScan == InitScan /\ [][ScanNext]_vars

\* C9: the probe loop prints one entry per prefix in list order, an error
\* entry exactly for the prefixes whose listing failed; it leaves the loop
\* only after the last prefix, and a scan with failed probes still ends with
\* its summary.
C9_ProbeIsolation ==
    /\ Len(ds_log) <= Len(prefixes_to_try)
    /\ \A k \in 1..Len(ds_log) :
          /\ ds_log[k].prefix = prefixes_to_try[k]
          /\ (ds_log[k].line = "error") <=> (k \in ds_fails)
    /\ ds_pc \in {"versions", "summary", "done"} =>
          Len(ds_log) = Len(prefixes_to_try)
    /\ ds_pc = "done" => ds_summary # <<>>

\* C13: when the standard listing succeeded, the summary's visible count is
\* the number of objects of that listing and the missing figure is the
\* reported count minus it, whatever the later listings gave.
C13_VisibleIsStandardListing ==
    (ds_pc = "done" /\ ds_std # <<>>) =>
        /\ ds_summary[1].visible = Len(ds_std[1])
        /\ ds_summary[1].missing = ds_backend.reported - Len(ds_std[1])

\* C9 witness: the listing of the second prefix failed, the later prefixes
\* were probed, the last one with objects found, and the scan ended.
C9_Witness ==
    /\ ds_pc = "done"
    /\ 2 \in ds_fails
    /\ Len(ds_log) = Len(prefixes_to_try)
    /\ ds_log[3].line # "error"
    /\ ds_log[Len(ds_log)].line = "found"

\* ------------------------------------------------------ check_all_containers
MaxContainers == 2  \* containers of the account listing

DetailLimit == 20   \* count <= 20: all objects are shown (limit=20)
FirstObjects == 5   \* count > 20: the first objects are shown (limit=5)

\* Entries of the account listing (the name is given by the position).
ContainerEntries == [count : {0, DetailLimit, DetailLimit + 1},
                     bytes : {0, 500, 1001}]

RECURSIVE AccountListings(_)
AccountListings(n) ==
    IF n = 0 THEN {<<>>}
    ELSE LET P == AccountListings(n - 1)
         IN P \cup {Append(l, [name |-> Len(l) + 1, count |-> e.count,
                               bytes |-> e.bytes]) :
                        l \in {q \in P : Len(q) = n - 1}, e \in ContainerEntries}

CheckInit ==
    /\ ca_backend \in [reported : {0, 1000, 1001, 2001},
                       containers : AccountListings(MaxContainers)]
    /\ ca_pc = "start"
    /\ ca_i = 0
    /\ total_account_size = 0
    /\ ca_log = <<>>
    /\ ca_fails = {}
    /\ ca_verdict = <<>>

\* Lines 36-55: the account is read and its containers are listed.
CaStart ==
    /\ ca_pc = "start"
    /\ total_account_size' = 0
    /\ ca_pc' = "loop"
    /\ UNCHANGED <<ca_backend, ca_i, ca_log, ca_fails, ca_verdict>>
    /\ UNCHANGED notCheck

\* Lines 36-50: load_rclone_auth, head_account or get_account raises; nothing
\* catches it and the script ends.
CaStartFails ==
    /\ ca_pc = "start"
    /\ ca_pc' = "crashed"
    /\ UNCHANGED <<ca_backend, ca_i, total_account_size, ca_log, ca_fails,
                   ca_verdict>>
    /\ UNCHANGED notCheck

\* Line 62: total_account_size += size, before the details are fetched.
AddSizeMutant(total, size, failed) == IF failed THEN total ELSE total + size

AddSize(total, size, failed) == total + size

\* Lines 74-86: what is shown of a container whose details were fetched.
ShownObjects(count) ==
    IF count > 0 /\ count <= DetailLimit THEN [line |-> "objects", limit |-> DetailLimit]
    ELSE IF count > DetailLimit THEN [line |-> "first", limit |-> FirstObjects]
    ELSE [line |-> "none", limit |-> 0]

\* Lines 57-89: one turn of the loop; head_container or the object listing
\* may raise, and then the error line is printed for this container.
CaContainer ==
    /\ ca_pc = "loop"
    /\ ca_i < Len(ca_backend.containers)
    /\ LET c == ca_backend.containers[ca_i + 1]
       IN \E failed \in BOOLEAN :
             /\ total_account_size' = AddSize(total_account_size, c.bytes, failed)
             /\ ca_log' = Append(ca_log,
                             [name |-> c.name,
                              line |-> IF failed THEN "error"
                                       ELSE ShownObjects(c.count).line])
             /\ ca_fails' = IF failed THEN ca_fails \cup {ca_i + 1} ELSE ca_fails
    /\ ca_i' = ca_i + 1
    /\ UNCHANGED <<ca_backend, ca_pc, ca_verdict>>
    /\ UNCHANGED notCheck

\* Line 95: if abs(total_account_size - reported_size) > 1000
SizesDifferMutant(total, reported) == total - reported > SizeTolerance

SizesDiffer(total, reported) == Abs(total - reported) > SizeTolerance

\* Lines 91-99: the calculated total and the verdict.
CaVerdict ==
    /\ ca_pc = "loop"
    /\ ca_i = Len(ca_backend.containers)
    /\ LET reported_size == ca_backend.reported
           differs == SizesDiffer(total_account_size, reported_size)
       IN ca_verdict' = <<[calculated |-> total_account_size,
                           match |-> ~differs,
                           diff |-> IF differs
                                    THEN reported_size - total_account_size
                                    ELSE 0]>>
    /\ ca_pc' = "done"
    /\ UNCHANGED <<ca_backend, ca_i, total_account_size, ca_log, ca_fails>>
    /\ UNCHANGED notCheck

CheckNext ==
    \/ CaStart
    \/ CaStartFails
    \/ CaContainer
    \/ CaVerdict

InitCheck == CheckInit /\ OthersIdle("check")

SpecCheck == InitCheck /\ [][CheckNext]_vars

\* C10: check_all_containers prints one entry per container of the account
\* listing, in order, an error entry exactly for the containers whose
\* head_container or object listing failed; the total counts every container
\* handled so far and the calculated total is the byte sum of all containers.
C10_SiblingsContinue ==
    /\ Len(ca_log) = ca_i
    /\ \A k \in 1..Len(ca_log) :
          /\ ca_log[k].name = ca_backend.containers[k].name
          /\ (ca_log[k].line = "error") <=> (k \in ca_fails)
    /\ ca_pc = "loop" =>
          total_account_size = SumBytes(SubSeq(ca_backend.containers, 1, ca_i))
    /\ ca_pc = "done" =>
          /\ ca_i = Len(ca_backend.containers)
          /\ ca_verdict[1].calculated = SumBytes(ca_backend.containers)

\* C14: the verdict is 'sizes match' iff the sum of the byte sizes of all
\* listed containers and the account's reported bytes differ by at most 1000
\* in either direction; otherwise the difference printed is the reported
\* bytes minus the calculated sum, with its sign.
C14_Verdict ==
    ca_pc = "done" =>
        LET sum == SumBytes(ca_backend.containers)
            reported == ca_backend.reported
        IN /\ ca_verdict[1].match <=>
                 (sum - reported <= 1000 /\ reported - sum <= 1000)
           /\ ~ca_verdict[1].match => ca_verdict[1].diff = reported - sum

\* C14 witness: the account reports 0 bytes, the containers sum to 1001, and
\* the difference printed is -1001.
C14_Witness ==
    /\ ca_pc = "done"
    /\ ca_backend.reported = 0
    /\ ca_verdict[1].calculated = 1001
    /\ ~ca_verdict[1].match
    /\ ca_verdict[1].diff = -1001

\* C10 witness: the details of the first of two containers failed, the second
\* was handled, and the total of both was printed.
C10_Witness ==
    /\ ca_pc = "done"
    /\ Len(ca_backend.containers) = 2
    /\ ca_fails = {1}
    /\ ca_log[2].line = "first"
    /\ ca_backend.containers[1].bytes = 500
    /\ ca_verdict[1].calculated = 1501

====
